---- MODULE Spec2Model ----
(***************************************************************************)
(* State-machine model of src/nearest_airport.py: the process-wide airport *)
(* cache (load_airports_once under _AIRPORTS_LOCK, the Parquet store, the  *)
(* provider download and the CSV filter) and the nearest-airport lookup    *)
(* (get_nearest_airport, nearest_airport, haversine_km).                   *)
(*                                                                         *)
(* Numbers.  Coordinates are whole degrees on the grid of multiples of 90  *)
(* (plus 91 and 181 as out-of-range query values); on that grid sin^2 and  *)
(* cos take the values 0, 1/2 and 1 only, so haversine_km is evaluated     *)
(* exactly.  Distances are whole metres.  Time is in seconds.              *)
(***************************************************************************)
EXTENDS Integers, Sequences, FiniteSets, TLC

VARIABLES
    pc,                      \* per thread: the program point it is at
    lat, lon,                \* per thread: arguments of get_nearest_airport
    refresh_airports,        \* per thread: argument of get_nearest_airport
    txt,                     \* per thread: local txt of load_airports_once
    airports,                \* per thread: local airports (load result, scan input)
    io,                      \* per thread: I/O performed by the current load call
    via,                     \* per thread: the return statement its load left by
    scan,                    \* per thread: locals of nearest_airport's loop
    result,                  \* per thread: value returned by get_nearest_airport
    AIRPORTS_CACHE,          \* the module global _AIRPORTS_CACHE
    AIRPORTS_LOCK,           \* the set of threads holding _AIRPORTS_LOCK
    store,                   \* the file PARQUET_FILE
    now,                     \* time.time()
    MAX_AIRPORT_DISTANCE_KM, \* the module global (rebound by --radius-km)
    behind,                  \* history, per thread: a load completed while it waited for the lock
    readback                 \* per thread: the list a direct call of _read_parquet returned

vars == <<pc, lat, lon, refresh_airports, txt, airports, io, via, scan, result,
          AIRPORTS_CACHE, AIRPORTS_LOCK, store, now, MAX_AIRPORT_DISTANCE_KM,
          behind, readback>>

----------------------------------------------------------------------------
(* Bounds of the model *)

NumThreads == 2
MaxTicks == 1
MaxLen == 3

Threads == 1..NumThreads

----------------------------------------------------------------------------
(* Constants of the program *)

CACHE_TTL_SECONDS == 7 * 24 * 3600

\* 300.0 km, in metres
MAX_AIRPORT_DISTANCE_DEFAULT == 300000

AIRPORT_TYPES == {"large_airport", "medium_airport"}

REQUIRE_SCHEDULED_SERVICE == TRUE

\* float("inf"): larger than every distance and every radius of the model
Infinity == 1000000000

\* pi * 6371.0088 km / 2 and pi * 6371.0088 km, in metres:
\* 2 * R * asin(sqrt(a)) for a = 1/2 and a = 1
QuarterTurn == 10007557
HalfTurn == 20015114

None == "None"

----------------------------------------------------------------------------
(* haversine_km *)

\* math.cos of a multiple of 90 degrees
Cos(deg) ==
    LET m == deg % 360
    IN  CASE m = 0 -> 1
          [] m = 180 -> -1
          [] OTHER -> 0

\* 2 * math.sin(x/2)**2 = 1 - cos(x), for x a multiple of 90 degrees
TwoSinSqHalf(deg) == 1 - Cos(deg)

\* 2 * R * math.asin(math.sqrt(a)), given 2a in {0, 1, 2}
ArcLength(twoA) ==
    CASE twoA = 0 -> 0
      [] twoA = 1 -> QuarterTurn
      [] OTHER -> HalfTurn

haversine_km(lat1, lon1, lat2, lon2, cos_phi1) ==
    LET dphi == lat2 - lat1
        dlambda == lon2 - lon1
        twoA == TwoSinSqHalf(dphi) + cos_phi1 * Cos(lat2) * TwoSinSqHalf(dlambda)
    IN  ArcLength(twoA)

----------------------------------------------------------------------------
(* The provider's CSV text and _parse_airports_csv *)

\* A text is a sequence of lines: the header line, then one line per row.
\* The empty sequence is the empty string.
Header == [type |-> "type", scheduled_service |-> "scheduled_service",
           name |-> "name", latitude_deg |-> "latitude_deg",
           longitude_deg |-> "longitude_deg"]

Row(tp, sched, name, lat_s, lon_s) ==
    [type |-> tp, scheduled_service |-> sched, name |-> name,
     latitude_deg |-> lat_s, longitude_deg |-> lon_s]

\* str.strip on the strings of the model
Strip(s) ==
    CASE s = " medium_airport " -> "medium_airport"
      [] s = " yes " -> "yes"
      [] s = " YES " -> "YES"
      [] s = " B " -> "B"
      [] s = "  " -> ""
      [] OTHER -> s

\* str.lower on the strings of the model
Lower(s) ==
    CASE s = "YES" -> "yes"
      [] s = " YES " -> " yes "
      [] s = "Yes" -> "yes"
      [] OTHER -> s

\* float(s) raises ValueError
FloatFails(s) == s \in {"abc", " ", "12,5"}

\* float(s) where it does not raise
Float(s) ==
    CASE s = "0" -> 0
      [] s = "90" -> 90
      [] s = "-90" -> -90
      [] s = " 90 " -> 90
      [] s = "180" -> 180
      [] s = "-180" -> -180
      [] s = "270" -> 270
      [] OTHER -> 0

\* the csv reader raises csv.Error on a line with a carriage return inside
\* an unquoted field
CsvError(line) == line.name = "A\rB"

\* the body of the for loop: the records one row contributes (none or one)
ParseRow(row) ==
    LET tp == Strip(row.type)
        name == Strip(row.name)
        lat_s == row.latitude_deg
        lon_s == row.longitude_deg
    IN  IF tp \notin AIRPORT_TYPES THEN <<>>
        ELSE IF REQUIRE_SCHEDULED_SERVICE
                /\ Strip(Lower(row.scheduled_service)) # "yes" THEN <<>>
        ELSE IF name = "" \/ lat_s = "" \/ lon_s = "" THEN <<>>
        ELSE IF FloatFails(lat_s) \/ FloatFails(lon_s) THEN <<>>
        ELSE << [name |-> name, lat |-> Float(lat_s), lon |-> Float(lon_s)] >>

RECURSIVE ParseRows(_)
ParseRows(rows) ==
    IF rows = <<>> THEN <<>>
    ELSE ParseRow(Head(rows)) \o ParseRows(Tail(rows))

\* _parse_airports_csv raises instead of returning
ParseRaises(text) == \E i \in 1..Len(text) : CsvError(text[i])

\* _parse_airports_csv(text) where it returns; DictReader takes the first
\* line as the field names
parse_airports_csv(text) ==
    IF text = <<>> THEN <<>> ELSE ParseRows(Tail(text))

----------------------------------------------------------------------------
(* The provider and the Parquet store *)

RowA == Row("large_airport", "yes", "A", "0", "0")
RowB == Row(" medium_airport ", " YES ", " B ", "0", " 90 ")
RowC == Row("medium_airport", "Yes", "C", "0", "-90")
RowSmall == Row("small_airport", "yes", "S", "0", "0")
RowNoService == Row("large_airport", "no", "N", "0", "0")
RowBadLat == Row("large_airport", "yes", "X", "abc", "0")
RowCR == Row("large_airport", "yes", "A\rB", "0", "0")
RowFar == Row("large_airport", "yes", "E", "270", "0")

AirportA == [name |-> "A", lat |-> 0, lon |-> 0]
AirportB == [name |-> "B", lat |-> 0, lon |-> 90]
AirportC == [name |-> "C", lat |-> 0, lon |-> -90]
AirportE == [name |-> "E", lat |-> 270, lon |-> 0]

\* what r.text can be when requests.get succeeds
ProviderTexts ==
    { <<>>,
      <<Header, RowA, RowSmall>>,
      <<Header, RowNoService, RowB, RowC>>,
      <<Header, RowSmall, RowBadLat>>,
      <<Header, RowA, RowCR>>,
      <<Header, RowFar>> }

\* Optional[str]: <<>> is None, <<text>> is the string text
NoText == <<>>
Some(text) == <<text>>

\* what _download_text can return: None after a RequestException, or r.text
download_text == {NoText} \cup {Some(text) : text \in ProviderTexts}

\* the truth value of an Optional[str]: None and "" are false
Truthy(t) == t # NoText /\ t[1] # <<>>

NoStore == [exists |-> FALSE, mtime |-> 0, readable |-> FALSE, data |-> <<>>]

\* a store exactly as old as the TTL taken as fresh
parquet_is_fresh_inclusive(st, time) ==
    st.exists /\ time - st.mtime <= CACHE_TTL_SECONDS

\* lines 48-49
parquet_is_fresh(st, time) ==
    st.exists /\ time - st.mtime < CACHE_TTL_SECONDS

\* every list taken as one that has records
HasRecordsAlways(list) == TRUE

\* the truth value of the list airports (lines 53 and 121)
HasRecords(list) == list # <<>>

\* the table of the reversed list written
write_parquet_reversed(st, list, time) ==
    IF ~HasRecords(list) THEN st
    ELSE [exists |-> TRUE, mtime |-> time, readable |-> TRUE,
          data |-> [i \in 1..Len(list) |->
                      [name |-> list[Len(list) + 1 - i].name,
                       lat |-> list[Len(list) + 1 - i].lat,
                       lon |-> list[Len(list) + 1 - i].lon]]]

\* pq.write_table succeeded: the file is replaced by the table of the
\* columns name, lat, lon of the list, and its mtime is the time of the
\* write; an empty list is not saved
write_parquet(st, list, time) ==
    IF ~HasRecords(list) THEN st
    ELSE [exists |-> TRUE, mtime |-> time, readable |-> TRUE,
          data |-> [i \in 1..Len(list) |->
                      [name |-> list[i].name, lat |-> list[i].lat,
                       lon |-> list[i].lon]]]

\* pq.write_table raised after it had truncated the file
TornWrite(time) ==
    [exists |-> TRUE, mtime |-> time, readable |-> FALSE, data |-> <<>>]

\* a read that never raises
ReadRaisesNever(st) == FALSE

\* pq.read_table raises on a file that is not a readable Parquet table
ReadRaises(st) == ~st.readable

\* _read_parquet where it returns
read_parquet(st) ==
    [i \in 1..Len(st.data) |->
        [name |-> st.data[i].name, lat |-> st.data[i].lat, lon |-> st.data[i].lon]]

----------------------------------------------------------------------------
(* The state of the process *)

NoResult == [airport |-> "?", error |-> "?"]
NoScan == [i |-> 0, best_name |-> None, best_dist |-> Infinity]

\* the (lat, lon) arguments of the lookups of the single caller
QueryPoints ==
    { <<0, 0>>, <<90, 180>>, <<-90, -180>>,
      <<91, 0>>, <<-91, 0>>, <<0, 181>>, <<0, -181>> }

\* the arguments and the provider's answers of the concurrent lookups
SomeQueryPoints == { <<0, 0>>, <<91, 0>> }
SomeTexts == { <<Header, RowA, RowSmall>>, <<Header, RowNoService, RowB, RowC>> }
some_download_text == {NoText} \cup {Some(text) : text \in SomeTexts}

\* the process starts one TTL after time 0
StartTime == CACHE_TTL_SECONDS

\* the store a previous run of the program can have left behind: none, or
\* one written at time 0 (its age at the start is the TTL) or just before
\* the start
InitialStores ==
    { NoStore,
      write_parquet(NoStore, <<AirportA>>, 0),
      write_parquet(NoStore, <<AirportA>>, StartTime),
      TornWrite(0),
      TornWrite(StartTime) }

Init ==
    /\ pc = [t \in Threads |-> "idle"]
    /\ lat = [t \in Threads |-> 0]
    /\ lon = [t \in Threads |-> 0]
    /\ refresh_airports = [t \in Threads |-> FALSE]
    /\ txt = [t \in Threads |-> NoText]
    /\ airports = [t \in Threads |-> <<>>]
    /\ io = [t \in Threads |-> <<>>]
    /\ via = [t \in Threads |-> "none"]
    /\ scan = [t \in Threads |-> NoScan]
    /\ result = [t \in Threads |-> NoResult]
    /\ AIRPORTS_CACHE = <<>>
    /\ AIRPORTS_LOCK = {}
    /\ store \in InitialStores
    /\ now = StartTime
    /\ MAX_AIRPORT_DISTANCE_KM = MAX_AIRPORT_DISTANCE_DEFAULT
    /\ behind = [t \in Threads |-> FALSE]
    /\ readback = [t \in Threads |-> <<>>]

----------------------------------------------------------------------------
(* get_nearest_airport: the call and the validation of its arguments *)

\* the upper bound of lon left out
ValidCoordinatesNoUpperLon(la, lo) == -90 <= la /\ la <= 90 /\ -180 <= lo

\* line 170
ValidCoordinates(la, lo) == -90 <= la /\ la <= 90 /\ -180 <= lo /\ lo <= 180

\* a thread calls get_nearest_airport(lat, lon, refresh_airports=...)
CallWith(t, points) ==
    /\ pc[t] \in {"idle", "done", "raised"}
    /\ \E q \in points, f \in BOOLEAN :
          /\ lat' = [lat EXCEPT ![t] = q[1]]
          /\ lon' = [lon EXCEPT ![t] = q[2]]
          /\ refresh_airports' = [refresh_airports EXCEPT ![t] = f]
    /\ pc' = [pc EXCEPT ![t] = "validate"]
    /\ result' = [result EXCEPT ![t] = NoResult]
    /\ airports' = [airports EXCEPT ![t] = <<>>]
    /\ scan' = [scan EXCEPT ![t] = NoScan]
    /\ UNCHANGED <<txt, io, via, behind, AIRPORTS_CACHE, AIRPORTS_LOCK, store,
                   now, MAX_AIRPORT_DISTANCE_KM, readback>>

Call(t) == CallWith(t, SomeQueryPoints)

CallAny(t) == CallWith(t, QueryPoints)

\* lines 170-173; refresh_airports is dead once the call has returned
Validate(t) ==
    /\ pc[t] = "validate"
    /\ IF ~ValidCoordinates(lat[t], lon[t])
       THEN /\ result' = [result EXCEPT ![t] =
                            [airport |-> None, error |-> "Invalid coordinates"]]
            /\ pc' = [pc EXCEPT ![t] = "done"]
            /\ refresh_airports' = [refresh_airports EXCEPT ![t] = FALSE]
       ELSE /\ pc' = [pc EXCEPT ![t] = "lock"]
            /\ UNCHANGED <<result, refresh_airports>>
    /\ UNCHANGED <<lat, lon, txt, airports, io, via, scan, behind,
                   AIRPORTS_CACHE, AIRPORTS_LOCK, store, now,
                   MAX_AIRPORT_DISTANCE_KM, readback>>

----------------------------------------------------------------------------
(* load_airports_once *)

\* the program points inside "with _AIRPORTS_LOCK"
InLoad == {"slot", "fresh", "read", "primary", "fallback", "parse",
           "persist", "stale", "commit"}

\* a lock that never blocks
LockNeverBlocks == TRUE

\* threading.Lock: acquire blocks while the lock is held
LockAvailable == AIRPORTS_LOCK = {}

\* line 102
Acquire(t) ==
    /\ pc[t] = "lock"
    /\ LockAvailable
    /\ AIRPORTS_LOCK' = AIRPORTS_LOCK \cup {t}
    /\ pc' = [pc EXCEPT ![t] = "slot"]
    /\ UNCHANGED <<lat, lon, refresh_airports, txt, airports, io, via, scan,
                   result, behind, AIRPORTS_CACHE, store, now,
                   MAX_AIRPORT_DISTANCE_KM, readback>>

\* a return statement inside the with block (how names it: line 104 "slot",
\* line 112 "store", line 142 "fetch"): the lock is released and the caller
\* receives list; the threads waiting for the lock have seen the load of a
\* caller that did not force a refresh complete while they waited
Return(t, list, how) ==
    /\ airports' = [airports EXCEPT ![t] = list]
    /\ via' = [via EXCEPT ![t] = how]
    /\ io' = [io EXCEPT ![t] = <<>>]
    /\ txt' = [txt EXCEPT ![t] = NoText]
    /\ refresh_airports' = [refresh_airports EXCEPT ![t] = FALSE]
    /\ AIRPORTS_LOCK' = AIRPORTS_LOCK \ {t}
    /\ pc' = [pc EXCEPT ![t] = "nearest"]
    /\ behind' = [u \in Threads |->
                    IF u # t /\ pc[u] = "lock" /\ ~refresh_airports[t]
                    THEN TRUE ELSE behind[u]]

\* the condition of line 103 with force_refresh inverted
SlotHitOnRefresh(t) == AIRPORTS_CACHE # <<>> /\ refresh_airports[t]

\* the early return of line 104 left out
SlotHitNever(t) == FALSE

\* the condition of line 103 with force_refresh ignored
SlotHitIgnoringRefresh(t) == AIRPORTS_CACHE # <<>>

\* the condition of line 103
SlotHit(t) == AIRPORTS_CACHE # <<>> /\ ~refresh_airports[t]

\* lines 103-104
CheckSlot(t) ==
    /\ pc[t] = "slot"
    /\ IF SlotHit(t)
       THEN Return(t, AIRPORTS_CACHE, "slot")
       ELSE /\ pc' = [pc EXCEPT ![t] = "fresh"]
            /\ UNCHANGED <<refresh_airports, txt, airports, io, via, behind,
                           AIRPORTS_LOCK>>
    /\ UNCHANGED <<lat, lon, scan, result, AIRPORTS_CACHE, store, now,
                   MAX_AIRPORT_DISTANCE_KM, readback>>

\* line 107: the store is examined only when force_refresh is false
CheckFresh(t) ==
    /\ pc[t] = "fresh"
    /\ IF refresh_airports[t]
       THEN /\ pc' = [pc EXCEPT ![t] = "primary"]
            /\ UNCHANGED io
       ELSE /\ io' = [io EXCEPT ![t] = Append(@, "stat")]
            /\ pc' = [pc EXCEPT ![t] =
                        IF parquet_is_fresh(store, now) THEN "read" ELSE "primary"]
    /\ UNCHANGED <<lat, lon, refresh_airports, txt, airports, via, scan, result,
                   behind, AIRPORTS_CACHE, AIRPORTS_LOCK, store, now,
                   MAX_AIRPORT_DISTANCE_KM, readback>>

\* lines 108-114
ReadFresh(t) ==
    /\ pc[t] = "read"
    /\ IF ReadRaises(store)
       THEN /\ io' = [io EXCEPT ![t] = Append(@, "read_failed")]
            /\ pc' = [pc EXCEPT ![t] = "primary"]
            /\ UNCHANGED <<refresh_airports, txt, airports, via, behind,
                           AIRPORTS_CACHE, AIRPORTS_LOCK>>
       ELSE /\ AIRPORTS_CACHE' = read_parquet(store)
            /\ Return(t, read_parquet(store), "store")
    /\ UNCHANGED <<lat, lon, scan, result, store, now, MAX_AIRPORT_DISTANCE_KM, readback>>

\* line 117, left operand of "or"
DownloadPrimaryFrom(t, responses) ==
    /\ pc[t] = "primary"
    /\ \E r \in responses :
          /\ txt' = [txt EXCEPT ![t] = r]
          /\ io' = [io EXCEPT ![t] =
                      Append(@, IF r = NoText THEN "primary_failed" ELSE "primary")]
          /\ pc' = [pc EXCEPT ![t] = IF Truthy(r) THEN "parse" ELSE "fallback"]
    /\ UNCHANGED <<lat, lon, refresh_airports, airports, via, scan, result,
                   behind, AIRPORTS_CACHE, AIRPORTS_LOCK, store, now,
                   MAX_AIRPORT_DISTANCE_KM, readback>>

DownloadPrimary(t) == DownloadPrimaryFrom(t, some_download_text)

DownloadPrimaryAny(t) == DownloadPrimaryFrom(t, download_text)

\* line 117, right operand of "or"
DownloadFallbackFrom(t, responses) ==
    /\ pc[t] = "fallback"
    /\ \E r \in responses :
          /\ txt' = [txt EXCEPT ![t] = r]
          /\ io' = [io EXCEPT ![t] =
                      Append(@, IF r = NoText THEN "fallback_failed" ELSE "fallback")]
    /\ pc' = [pc EXCEPT ![t] = "parse"]
    /\ UNCHANGED <<lat, lon, refresh_airports, airports, via, scan, result,
                   behind, AIRPORTS_CACHE, AIRPORTS_LOCK, store, now,
                   MAX_AIRPORT_DISTANCE_KM, readback>>

DownloadFallback(t) == DownloadFallbackFrom(t, some_download_text)

DownloadFallbackAny(t) == DownloadFallbackFrom(t, download_text)

\* line 118; a csv.Error leaves the with block, load_airports_once and
\* get_nearest_airport
Parse(t) ==
    /\ pc[t] = "parse"
    /\ IF Truthy(txt[t]) /\ ParseRaises(txt[t][1])
       THEN /\ pc' = [pc EXCEPT ![t] = "raised"]
            /\ AIRPORTS_LOCK' = AIRPORTS_LOCK \ {t}
            /\ io' = [io EXCEPT ![t] = <<>>]
            /\ refresh_airports' = [refresh_airports EXCEPT ![t] = FALSE]
            /\ UNCHANGED airports
       ELSE /\ pc' = [pc EXCEPT ![t] = "persist"]
            /\ airports' = [airports EXCEPT ![t] =
                              IF Truthy(txt[t]) THEN parse_airports_csv(txt[t][1])
                              ELSE <<>>]
            /\ UNCHANGED <<AIRPORTS_LOCK, io, refresh_airports>>
    /\ txt' = [txt EXCEPT ![t] = NoText]
    /\ behind' = [behind EXCEPT ![t] = FALSE]
    /\ UNCHANGED <<lat, lon, via, scan, result, AIRPORTS_CACHE, store, now,
                   MAX_AIRPORT_DISTANCE_KM, readback>>

\* lines 121-128: pq.write_table succeeds, raises leaving the file as it
\* was, or raises leaving a truncated file
Persist(t) ==
    /\ pc[t] = "persist"
    /\ IF HasRecords(airports[t])
       THEN \/ /\ store' = write_parquet(store, airports[t], now)
               /\ io' = [io EXCEPT ![t] = Append(@, "write")]
            \/ /\ store' = store
               /\ io' = [io EXCEPT ![t] = Append(@, "write_failed")]
            \/ /\ store' = TornWrite(now)
               /\ io' = [io EXCEPT ![t] = Append(@, "write_failed")]
       ELSE UNCHANGED <<store, io>>
    /\ pc' = [pc EXCEPT ![t] = "stale"]
    /\ UNCHANGED <<lat, lon, refresh_airports, txt, airports, via, scan, result,
                   behind, AIRPORTS_CACHE, AIRPORTS_LOCK, now,
                   MAX_AIRPORT_DISTANCE_KM, readback>>

\* the store used as a fallback only while it is fresh
UseStoreIfFresh(list, st) == list = <<>> /\ parquet_is_fresh(st, now)

\* the store read whenever it exists
UseStoreAlways(list, st) == st.exists

\* the condition of line 131
UseStore(list, st) == list = <<>> /\ st.exists

\* lines 131-137
StaleFallback(t) ==
    /\ pc[t] = "stale"
    /\ IF UseStore(airports[t], store)
       THEN IF ReadRaises(store)
            THEN /\ airports' = [airports EXCEPT ![t] = <<>>]
                 /\ io' = [io EXCEPT ![t] = Append(@, "read_failed")]
            ELSE /\ airports' = [airports EXCEPT ![t] = read_parquet(store)]
                 /\ io' = [io EXCEPT ![t] = Append(@, "read")]
       ELSE UNCHANGED <<airports, io>>
    /\ pc' = [pc EXCEPT ![t] = "commit"]
    /\ UNCHANGED <<lat, lon, refresh_airports, txt, via, scan, result, behind,
                   AIRPORTS_CACHE, AIRPORTS_LOCK, store, now,
                   MAX_AIRPORT_DISTANCE_KM, readback>>

\* lines 139-142
Commit(t) ==
    /\ pc[t] = "commit"
    /\ AIRPORTS_CACHE' = airports[t]
    /\ Return(t, airports[t], "fetch")
    /\ UNCHANGED <<lat, lon, scan, result, store, now, MAX_AIRPORT_DISTANCE_KM, readback>>

----------------------------------------------------------------------------
(* nearest_airport and the return of get_nearest_airport *)

\* a missing airport reported in the error field
AnswerWithError(airport, err) ==
    [airport |-> IF airport # None /\ airport # "" THEN airport ELSE None,
     error |-> IF airport = None THEN "Airport not found" ELSE None]

\* line 175: the dict built from nearest_airport's (airport, err)
Answer(airport, err) ==
    [airport |-> IF airport # None /\ airport # "" THEN airport ELSE None,
     error |-> IF err # None /\ err # "" THEN err ELSE None]

\* lines 146-153: an empty list returns at once, otherwise the loop starts
Nearest(t) ==
    /\ pc[t] = "nearest"
    /\ IF airports[t] = <<>>
       THEN /\ result' = [result EXCEPT ![t] = Answer(None, None)]
            /\ pc' = [pc EXCEPT ![t] = "done"]
            /\ UNCHANGED scan
       ELSE /\ scan' = [scan EXCEPT ![t] =
                          [i |-> 1, best_name |-> None, best_dist |-> Infinity]]
            /\ pc' = [pc EXCEPT ![t] = "scan"]
            /\ UNCHANGED result
    /\ via' = [via EXCEPT ![t] = "none"]
    /\ behind' = [behind EXCEPT ![t] = FALSE]
    /\ UNCHANGED <<lat, lon, refresh_airports, txt, airports, io,
                   AIRPORTS_CACHE, AIRPORTS_LOCK, store, now,
                   MAX_AIRPORT_DISTANCE_KM, readback>>

\* the comparison of line 157 made non-strict
CloserOrEqual(d, best_dist) == d <= best_dist

\* line 157
Closer(d, best_dist) == d < best_dist

\* the list object overwritten in place by the slot's current records
ScanListShared(t) ==
    [i \in 1..Len(airports[t]) |->
        IF i <= Len(AIRPORTS_CACHE) THEN AIRPORTS_CACHE[i] ELSE airports[t][i]]

\* line 155: the loop iterates over the list its caller received from
\* load_airports_once (line 173); no statement of the program changes a
\* list after it was returned
ScanList(t) == airports[t]

\* lines 155-159: one iteration of the loop
ScanStep(t) ==
    /\ pc[t] = "scan"
    /\ scan[t].i <= Len(airports[t])
    /\ LET a == ScanList(t)[scan[t].i]
           d == haversine_km(lat[t], lon[t], a.lat, a.lon, Cos(lat[t]))
       IN  scan' = [scan EXCEPT ![t] =
                      IF Closer(d, scan[t].best_dist)
                      THEN [i |-> scan[t].i + 1, best_name |-> a.name, best_dist |-> d]
                      ELSE [scan[t] EXCEPT !.i = @ + 1]]
    /\ UNCHANGED <<pc, lat, lon, refresh_airports, txt, airports, io, via,
                   result, behind, AIRPORTS_CACHE, AIRPORTS_LOCK, store, now,
                   MAX_AIRPORT_DISTANCE_KM, readback>>

\* the comparison of line 164 made non-strict
AtOrOutOfRadius(best_dist) == best_dist >= MAX_AIRPORT_DISTANCE_KM

\* line 164
OutOfRadius(best_dist) == best_dist > MAX_AIRPORT_DISTANCE_KM

\* lines 164-166 and 175
Finish(t) ==
    /\ pc[t] = "scan"
    /\ scan[t].i > Len(airports[t])
    /\ result' = [result EXCEPT ![t] =
                    IF OutOfRadius(scan[t].best_dist)
                    THEN Answer(None, None)
                    ELSE Answer(scan[t].best_name, None)]
    /\ pc' = [pc EXCEPT ![t] = "done"]
    /\ UNCHANGED <<lat, lon, refresh_airports, txt, airports, io, via, scan,
                   behind, AIRPORTS_CACHE, AIRPORTS_LOCK, store, now,
                   MAX_AIRPORT_DISTANCE_KM, readback>>

----------------------------------------------------------------------------
(* Time and the specifications *)

\* time passes, one TTL at a time
Tick ==
    /\ now < StartTime + MaxTicks * CACHE_TTL_SECONDS
    /\ now' = now + CACHE_TTL_SECONDS
    /\ UNCHANGED <<pc, lat, lon, refresh_airports, txt, airports, io, via,
                   scan, result, behind, AIRPORTS_CACHE, AIRPORTS_LOCK, store,
                   MAX_AIRPORT_DISTANCE_KM, readback>>

Next ==
    \/ \E t \in Threads :
          \/ Call(t)
          \/ Validate(t)
          \/ Acquire(t)
          \/ CheckSlot(t)
          \/ CheckFresh(t)
          \/ ReadFresh(t)
          \/ DownloadPrimary(t)
          \/ DownloadFallback(t)
          \/ Parse(t)
          \/ Persist(t)
          \/ StaleFallback(t)
          \/ Commit(t)
          \/ Nearest(t)
          \/ ScanStep(t)
          \/ Finish(t)

\* concurrent lookups
Spec == Init /\ [][Next]_vars

\* the steps of a lookup that take no input
Step(t) ==
    \/ Validate(t)
    \/ Acquire(t)
    \/ CheckSlot(t)
    \/ CheckFresh(t)
    \/ ReadFresh(t)
    \/ Parse(t)
    \/ Persist(t)
    \/ StaleFallback(t)
    \/ Commit(t)
    \/ Nearest(t)
    \/ ScanStep(t)
    \/ Finish(t)

\* one caller, lookup after lookup, with every argument and every answer of
\* the provider
NextSingle ==
    \/ CallAny(1)
    \/ DownloadPrimaryAny(1)
    \/ DownloadFallbackAny(1)
    \/ Step(1)
    \/ Tick

SpecSingle == Init /\ [][NextSingle]_vars

----------------------------------------------------------------------------
(* Concurrent lookups under fair scheduling *)

\* the provider's answers of the fairly scheduled lookups
FairTexts == { <<Header, RowA, RowSmall>>, <<Header, RowA, RowCR>> }
fair_download_text == {NoText} \cup {Some(text) : text \in FairTexts}

DownloadPrimaryFair(t) == DownloadPrimaryFrom(t, fair_download_text)

DownloadFallbackFair(t) == DownloadFallbackFrom(t, fair_download_text)

\* the steps of a lookup that do not wait for another thread; each request
\* ends (with a response or, after the timeout of 20 s, with an exception)
Progress(t) ==
    \/ Validate(t)
    \/ CheckSlot(t)
    \/ CheckFresh(t)
    \/ ReadFresh(t)
    \/ DownloadPrimaryFair(t)
    \/ DownloadFallbackFair(t)
    \/ Parse(t)
    \/ Persist(t)
    \/ StaleFallback(t)
    \/ Commit(t)
    \/ Nearest(t)
    \/ ScanStep(t)
    \/ Finish(t)

NextFair == \E t \in Threads : Call(t) \/ Acquire(t) \/ Progress(t)

\* every thread that can run does run, and a thread waiting for the lock
\* gets it if the lock is free again and again
Fairness ==
    \A t \in Threads : WF_vars(Progress(t)) /\ SF_vars(Acquire(t))

SpecFair == Init /\ [][NextFair]_vars /\ Fairness

----------------------------------------------------------------------------
(* nearest_airport as a function of its arguments *)

AirportD == [name |-> "D", lat |-> 90, lon |-> 0]

Airports == {AirportA, AirportB, AirportC, AirportD}

\* the lists of at most n airports
RECURSIVE Lists(_)
Lists(n) ==
    IF n = 0 THEN { <<>> }
    ELSE Lists(n - 1) \cup
         { Append(l, a) : l \in { m \in Lists(n - 1) : Len(m) = n - 1 }, a \in Airports }

\* the valid coordinates of the grid
Latitudes == {-90, 0, 90}
Longitudes == {-180, -90, 0, 90, 180}

\* the values --radius-km gives MAX_AIRPORT_DISTANCE_KM (lines 188-189), in
\* metres, and its default
Radii == {0, MAX_AIRPORT_DISTANCE_DEFAULT, QuarterTurn}

\* thread 1 is about to call nearest_airport(lat, lon, airports)
InitNearest ==
    /\ pc = [t \in Threads |-> IF t = 1 THEN "nearest" ELSE "idle"]
    /\ \E la \in Latitudes : lat = [t \in Threads |-> IF t = 1 THEN la ELSE 0]
    /\ \E lo \in Longitudes : lon = [t \in Threads |-> IF t = 1 THEN lo ELSE 0]
    /\ \E l \in Lists(MaxLen) : airports = [t \in Threads |-> IF t = 1 THEN l ELSE <<>>]
    /\ refresh_airports = [t \in Threads |-> FALSE]
    /\ txt = [t \in Threads |-> NoText]
    /\ io = [t \in Threads |-> <<>>]
    /\ via = [t \in Threads |-> "none"]
    /\ scan = [t \in Threads |-> NoScan]
    /\ result = [t \in Threads |-> NoResult]
    /\ AIRPORTS_CACHE = <<>>
    /\ AIRPORTS_LOCK = {}
    /\ store = NoStore
    /\ now = StartTime
    /\ MAX_AIRPORT_DISTANCE_KM \in Radii
    /\ behind = [t \in Threads |-> FALSE]
    /\ readback = [t \in Threads |-> <<>>]

NextNearest == Nearest(1) \/ ScanStep(1) \/ Finish(1)

SpecNearest == InitNearest /\ [][NextNearest]_vars

----------------------------------------------------------------------------
(* _write_parquet and _read_parquet as functions of the list and the file *)

\* lines 52-63, called with the list airports[t]: pq.write_table succeeds,
\* or raises leaving the file as it was or truncated
WriteParquet(t) ==
    /\ pc[t] = "write"
    /\ \/ /\ store' = write_parquet(store, airports[t], now)
          /\ pc' = [pc EXCEPT ![t] = "reread"]
       \/ /\ HasRecords(airports[t])
          /\ store' \in {store, TornWrite(now)}
          /\ pc' = [pc EXCEPT ![t] = "raised"]
    /\ UNCHANGED <<lat, lon, refresh_airports, txt, airports, io, via, scan,
                   result, behind, AIRPORTS_CACHE, AIRPORTS_LOCK, now,
                   MAX_AIRPORT_DISTANCE_KM, readback>>

\* lines 66-70: pq.read_table raises on a missing or unreadable file
ReadParquet(t) ==
    /\ pc[t] = "reread"
    /\ IF ReadRaises(store)
       THEN /\ pc' = [pc EXCEPT ![t] = "raised"]
            /\ UNCHANGED readback
       ELSE /\ pc' = [pc EXCEPT ![t] = "done"]
            /\ readback' = [readback EXCEPT ![t] = read_parquet(store)]
    /\ UNCHANGED <<lat, lon, refresh_airports, txt, airports, io, via, scan,
                   result, behind, AIRPORTS_CACHE, AIRPORTS_LOCK, store, now,
                   MAX_AIRPORT_DISTANCE_KM>>

\* thread 1 is about to call _write_parquet(airports) and then
\* _read_parquet(), whatever file is there
InitRoundTrip ==
    /\ pc = [t \in Threads |-> IF t = 1 THEN "write" ELSE "idle"]
    /\ \E l \in Lists(MaxLen) : airports = [t \in Threads |-> IF t = 1 THEN l ELSE <<>>]
    /\ lat = [t \in Threads |-> 0]
    /\ lon = [t \in Threads |-> 0]
    /\ refresh_airports = [t \in Threads |-> FALSE]
    /\ txt = [t \in Threads |-> NoText]
    /\ io = [t \in Threads |-> <<>>]
    /\ via = [t \in Threads |-> "none"]
    /\ scan = [t \in Threads |-> NoScan]
    /\ result = [t \in Threads |-> NoResult]
    /\ AIRPORTS_CACHE = <<>>
    /\ AIRPORTS_LOCK = {}
    /\ store \in InitialStores
    /\ now = StartTime
    /\ MAX_AIRPORT_DISTANCE_KM = MAX_AIRPORT_DISTANCE_DEFAULT
    /\ behind = [t \in Threads |-> FALSE]
    /\ readback = [t \in Threads |-> <<>>]

NextRoundTrip == WriteParquet(1) \/ ReadParquet(1)

SpecRoundTrip == InitRoundTrip /\ [][NextRoundTrip]_vars

----------------------------------------------------------------------------
(* _parse_airports_csv as a function of the text *)

RowNoName == Row("large_airport", "yes", "  ", "0", "0")
RowNoLon == Row("medium_airport", "yes", "G", "0", "")

ParseInputRows ==
    {RowA, RowB, RowC, RowSmall, RowNoService, RowBadLat, RowCR, RowFar,
     RowNoName, RowNoLon}

\* the texts of the header line and at most n rows
RECURSIVE Texts(_)
Texts(n) ==
    IF n = 0 THEN { <<Header>> }
    ELSE Texts(n - 1) \cup
         { Append(x, r) : x \in { y \in Texts(n - 1) : Len(y) = n }, r \in ParseInputRows }

\* thread 1 is at line 118 with a non-empty text
InitParse ==
    /\ pc = [t \in Threads |-> IF t = 1 THEN "parse" ELSE "idle"]
    /\ \E x \in Texts(MaxLen) : txt = [t \in Threads |-> IF t = 1 THEN Some(x) ELSE NoText]
    /\ lat = [t \in Threads |-> 0]
    /\ lon = [t \in Threads |-> 0]
    /\ refresh_airports = [t \in Threads |-> FALSE]
    /\ airports = [t \in Threads |-> <<>>]
    /\ io = [t \in Threads |-> IF t = 1 THEN <<"primary">> ELSE <<>>]
    /\ via = [t \in Threads |-> "none"]
    /\ scan = [t \in Threads |-> NoScan]
    /\ result = [t \in Threads |-> NoResult]
    /\ AIRPORTS_CACHE = <<>>
    /\ AIRPORTS_LOCK = {1}
    /\ store = NoStore
    /\ now = StartTime
    /\ MAX_AIRPORT_DISTANCE_KM = MAX_AIRPORT_DISTANCE_DEFAULT
    /\ behind = [t \in Threads |-> FALSE]
    /\ readback = [t \in Threads |-> <<>>]

NextParse == Parse(1)

SpecParse == InitParse /\ [][NextParse]_vars

----------------------------------------------------------------------------
(* Claims *)

\* the statement of the coordinate ranges, [-90,90] and [-180,180]
InRange(la, lo) == la >= -90 /\ la <= 90 /\ lo >= -180 /\ lo <= 180

NotFound == [airport |-> None, error |-> None]
InvalidCoordinates == [airport |-> None, error |-> "Invalid coordinates"]

\* the whole I/O log of a load contains the event e
Did(t, e) == \E k \in 1..Len(io[t]) : io[t][k] = e

\* C1: load_airports_once never raises, whatever the outcome of its steps,
\* and when both downloads fail and no readable store exists the set it is
\* about to return is empty.
C1_LoadNeverRaises ==
    \A t \in Threads :
        /\ pc[t] # "raised"
        /\ (pc[t] = "commit" /\ Did(t, "primary_failed") /\ Did(t, "fallback_failed")
              /\ (~store.exists \/ ~store.readable))
           => airports[t] = <<>>

\* C2: a call with lat outside [-90,90] or lon outside [-180,180] returns
\* {airport: null, error: "Invalid coordinates"} in the step that validates
\* it, and that step leaves the lock, the slot, the store and the I/O log as
\* they were.
C2_InvalidCoordinatesRejected ==
    [][\A t \in Threads :
          (pc[t] = "validate" /\ pc'[t] # "validate" /\ ~InRange(lat[t], lon[t]))
          => /\ pc'[t] = "done"
             /\ result'[t] = InvalidCoordinates
             /\ UNCHANGED <<AIRPORTS_LOCK, AIRPORTS_CACHE, store, io, txt, airports>>]_vars

C2_Witness ==
    \E t \in Threads :
        /\ pc[t] = "done"
        /\ lon[t] > 180
        /\ result[t] = InvalidCoordinates
        /\ AIRPORTS_CACHE # <<>>

\* C3: every result of get_nearest_airport is a named airport with no error,
\* no airport with no error, or no airport with the validation error; the
\* error is non-null exactly when the coordinates are out of range.
C3_ResultShape ==
    \A t \in Threads :
        pc[t] = "done" =>
            /\ \/ result[t].airport \in {"A", "B", "C", "D", "E"} /\ result[t].error = None
               \/ result[t] = NotFound
               \/ result[t] = InvalidCoordinates
            /\ result[t].error # None <=> ~InRange(lat[t], lon[t])

C3_Witness ==
    \E t \in Threads :
        /\ pc[t] = "done"
        /\ InRange(lat[t], lon[t])
        /\ result[t] = [airport |-> "A", error |-> None]
        /\ store.exists /\ ~store.readable

\* C4: at most one thread at a time is inside the load sequence.
C4_OneLoadAtATime ==
    Cardinality({t \in Threads : pc[t] \in InLoad}) <= 1

C4_Witness ==
    \E t, u \in Threads :
        /\ pc[t] = "parse"
        /\ pc[u] = "lock"

\* C5 as stated: a lookup without forced refresh issues no provider fetch
\* after the load of another such lookup, behind which it waited for the
\* lock, has completed.
C5_NoFetchAfterCompletedLoad ==
    \A t \in Threads :
        (pc[t] \in {"fallback", "parse"} /\ ~refresh_airports[t]) => ~behind[t]

\* C5 as amended: a lookup without forced refresh goes past the slot check
\* (to the store and the provider) only while the slot is empty; behind a
\* load that left the slot populated it reuses that result.
C5_NoFetchWhileSlotPopulated ==
    \A t \in Threads :
        (pc[t] \in InLoad \ {"slot"} /\ ~refresh_airports[t]) => AIRPORTS_CACHE = <<>>

C5_Witness ==
    \E t \in Threads :
        /\ pc[t] = "nearest"
        /\ via[t] = "slot"
        /\ behind[t]

\* C6: with the slot populated and force_refresh false the call returns the
\* slot's set at once, with no I/O and with the slot and the store unchanged;
\* the slot changes only in a step of a call that forces refresh or that
\* found the slot empty.
C6_SlotHitReturnsAtOnce ==
    [][/\ \A t \in Threads :
             (pc[t] = "slot" /\ pc'[t] # "slot"
                 /\ AIRPORTS_CACHE # <<>> /\ ~refresh_airports[t])
             => /\ pc'[t] = "nearest"
                /\ airports'[t] = AIRPORTS_CACHE
                /\ io[t] = <<>> /\ io'[t] = <<>>
                /\ UNCHANGED <<AIRPORTS_CACHE, store>>
       /\ AIRPORTS_CACHE' # AIRPORTS_CACHE
             => \E t \in AIRPORTS_LOCK :
                   refresh_airports[t] \/ AIRPORTS_CACHE = <<>>]_vars

C6_Witness ==
    \E t \in Threads :
        /\ pc[t] = "nearest"
        /\ via[t] = "slot"
        /\ airports[t] = AIRPORTS_CACHE
        /\ airports[t] # <<>>

\* C7: for a load with force_refresh false and an empty slot, a store that
\* exists and is younger than the TTL of 7 days is read, and if the read
\* succeeds the load returns the store's contents and puts them in the slot
\* without a provider fetch; with a store that is absent or at least as old
\* as the TTL the load goes to the provider.
C7_FreshStoreIsRead ==
    [][\A t \in Threads :
          /\ (pc[t] = "fresh" /\ pc'[t] # "fresh"
                 /\ ~refresh_airports[t] /\ AIRPORTS_CACHE = <<>>)
             => IF store.exists /\ now - store.mtime < 7 * 24 * 3600
                THEN pc'[t] = "read"
                ELSE pc'[t] = "primary"
          /\ (pc[t] = "read" /\ pc'[t] # "read" /\ store.readable)
             => /\ pc'[t] = "nearest"
                /\ airports'[t] = store.data
                /\ AIRPORTS_CACHE' = store.data
                /\ ~Did(t, "primary") /\ ~Did(t, "primary_failed")
                /\ UNCHANGED store]_vars

C7_Witness ==
    \E t \in Threads :
        /\ pc[t] = "nearest"
        /\ via[t] = "store"
        /\ airports[t] = <<AirportA>>
        /\ AIRPORTS_CACHE = <<AirportA>>

Dist(t, j) ==
    haversine_km(lat[t], lon[t], airports[t][j].lat, airports[t][j].lon, Cos(lat[t]))

\* C9: on a non-empty list the scan selects a record whose distance to the
\* query is <= the distance of every record of the list, and it is the
\* earliest record at that distance.
C9_NearestIsFirstMinimum ==
    \A t \in Threads :
        (pc[t] = "done" /\ InRange(lat[t], lon[t]) /\ airports[t] # <<>>) =>
            \E k \in 1..Len(airports[t]) :
                /\ scan[t].best_name = airports[t][k].name
                /\ scan[t].best_dist = Dist(t, k)
                /\ \A j \in 1..Len(airports[t]) : Dist(t, k) <= Dist(t, j)
                /\ \A j \in 1..(k - 1) : Dist(t, j) # Dist(t, k)

C9_Witness ==
    \E t \in Threads :
        /\ pc[t] = "done"
        /\ Len(airports[t]) = 3
        /\ Dist(t, 1) > Dist(t, 2)
        /\ Dist(t, 2) = Dist(t, 3)
        /\ airports[t][2].name # airports[t][3].name
        /\ scan[t].best_name = airports[t][2].name

\* C10: a name is returned only if the smallest distance found is <= the
\* maximum radius (a distance equal to the radius returns the name, a larger
\* one returns not-found), and an empty list returns not-found without the
\* loop having run.
C10_RadiusBound ==
    \A t \in Threads :
        (pc[t] = "done" /\ InRange(lat[t], lon[t])) =>
            IF airports[t] = <<>>
            THEN result[t] = NotFound /\ scan[t].i = 0
            ELSE IF scan[t].best_dist > MAX_AIRPORT_DISTANCE_KM
            THEN result[t] = NotFound
            ELSE /\ result[t] = [airport |-> scan[t].best_name, error |-> None]
                 /\ result[t].airport # None

C10_Witness ==
    \E t \in Threads :
        /\ pc[t] = "done"
        /\ scan[t].best_dist = MAX_AIRPORT_DISTANCE_KM
        /\ scan[t].best_dist > 0
        /\ result[t].airport = scan[t].best_name
        /\ result[t].airport # None

\* a record as the data model describes it
WellFormed(r) == r.name # "" /\ InRange(r.lat, r.lon)

\* C11: every record of the slot and of every list load_airports_once
\* returned has a non-empty name, a latitude in [-90,90] and a longitude in
\* [-180,180].
C11_RecordsInBounds ==
    /\ \A i \in 1..Len(AIRPORTS_CACHE) : WellFormed(AIRPORTS_CACHE[i])
    /\ \A t \in Threads :
          pc[t] \in {"nearest", "scan", "done"} =>
              \A i \in 1..Len(airports[t]) : WellFormed(airports[t][i])

C13_ScanOverOneSet ==
    [][\A t \in Threads :
          /\ (pc[t] \in InLoad /\ pc'[t] = "nearest")
             => airports'[t] = AIRPORTS_CACHE'
          /\ pc[t] \in {"nearest", "scan"}
             => airports'[t] = airports[t]
          /\ (pc[t] = "scan" /\ pc'[t] = "done")
             => \E k \in 1..Len(airports[t]) :
                   /\ scan[t].best_name = airports[t][k].name
                   /\ scan[t].best_dist = Dist(t, k)
                   /\ \A j \in 1..Len(airports[t]) : Dist(t, k) <= Dist(t, j)
                   /\ \A j \in 1..(k - 1) : Dist(t, j) # Dist(t, k)]_vars

C13_Witness ==
    \E t \in Threads :
        /\ pc[t] = "scan"
        /\ scan[t].i = 2
        /\ Len(airports[t]) = 2
        /\ AIRPORTS_CACHE # <<>>
        /\ AIRPORTS_CACHE # airports[t]

\* C14: when the fetched and normalized set is non-empty and writing it to
\* the store fails, the load raises nothing, does not read the store, and
\* returns that same set and puts it in the slot.
C14_PersistFailureIsNotFatal ==
    [][\A t \in Threads :
          /\ (pc[t] = "persist" /\ pc'[t] # "persist" /\ Did(t, "write_failed")')
             => /\ pc'[t] = "stale"
                /\ airports[t] # <<>>
                /\ airports'[t] = airports[t]
          /\ (pc[t] = "stale" /\ pc'[t] # "stale" /\ Did(t, "write_failed"))
             => /\ pc'[t] = "commit"
                /\ airports'[t] = airports[t]
                /\ io'[t] = io[t]
          /\ (pc[t] = "commit" /\ pc'[t] # "commit" /\ Did(t, "write_failed"))
             => /\ pc'[t] = "nearest"
                /\ airports'[t] = airports[t]
                /\ airports'[t] # <<>>
                /\ AIRPORTS_CACHE' = airports[t]]_vars

C14_Witness ==
    \E t \in Threads :
        /\ pc[t] = "commit"
        /\ Did(t, "write_failed")
        /\ store.exists /\ store.readable
        /\ airports[t] # <<>>
        /\ store.data # airports[t]

\* C15 as stated: a load with force_refresh true returns only after a
\* provider fetch was attempted; when the fetched and normalized set is
\* non-empty the store is written with it, and it is the set returned and
\* the slot's value after the call.
C15_ForcedRefreshRewritesStore ==
    [][\A t \in Threads :
          refresh_airports[t] =>
             /\ (pc[t] \in InLoad /\ pc'[t] = "nearest")
                => Did(t, "primary") \/ Did(t, "primary_failed")
             /\ (pc[t] = "persist" /\ pc'[t] # "persist" /\ airports[t] # <<>>)
                => /\ store' = [exists |-> TRUE, mtime |-> now, readable |-> TRUE,
                                data |-> airports[t]]
                   /\ airports'[t] = airports[t]
             /\ (pc[t] = "stale" /\ pc'[t] # "stale" /\ airports[t] # <<>>)
                => airports'[t] = airports[t]
             /\ (pc[t] = "commit" /\ pc'[t] # "commit")
                => /\ airports'[t] = airports[t]
                   /\ AIRPORTS_CACHE' = airports[t]]_vars

\* C15 as amended: the same, except that the write of the store is an
\* attempt: the store holds the new set when the write succeeds, and a
\* failed write changes neither the set returned nor the slot.
C15_ForcedRefreshFetchesFirst ==
    [][\A t \in Threads :
          refresh_airports[t] =>
             /\ (pc[t] \in InLoad /\ pc'[t] = "nearest")
                => Did(t, "primary") \/ Did(t, "primary_failed")
             /\ (pc[t] = "persist" /\ pc'[t] # "persist" /\ airports[t] # <<>>)
                => /\ \/ store' = [exists |-> TRUE, mtime |-> now, readable |-> TRUE,
                                   data |-> airports[t]]
                      \/ Did(t, "write_failed")'
                   /\ Did(t, "write")' \/ Did(t, "write_failed")'
                   /\ airports'[t] = airports[t]
             /\ (pc[t] = "stale" /\ pc'[t] # "stale" /\ airports[t] # <<>>)
                => airports'[t] = airports[t]
             /\ (pc[t] = "commit" /\ pc'[t] # "commit")
                => /\ airports'[t] = airports[t]
                   /\ AIRPORTS_CACHE' = airports[t]]_vars

C15_Witness ==
    \E t \in Threads :
        /\ pc[t] = "commit"
        /\ refresh_airports[t]
        /\ Did(t, "write")
        /\ AIRPORTS_CACHE # <<>>
        /\ AIRPORTS_CACHE # airports[t]
        /\ store.data = airports[t]

\* C16: a store that cannot be read, whether the file is absent or corrupt
\* and whether it is fresh or stale, contributes nothing to the load: the
\* steps that look at it change neither the slot, the store nor the local
\* list, the fresh-store branch ends at the provider fetch, and after the
\* fetch the list stays the fetched one.
C16_UnreadableStoreIsAbsent ==
    [][\A t \in Threads :
          /\ (pc[t] \in {"fresh", "read"} /\ pc'[t] # pc[t] /\ ~store.readable)
             => /\ pc'[t] \in {"read", "primary"}
                /\ airports'[t] = airports[t]
                /\ UNCHANGED <<AIRPORTS_CACHE, store>>
          /\ (pc[t] = "read" /\ pc'[t] # "read" /\ ~store.readable)
             => pc'[t] = "primary"
          /\ (pc[t] = "stale" /\ pc'[t] # "stale" /\ ~store.readable)
             => /\ pc'[t] = "commit"
                /\ airports'[t] = airports[t]
                /\ UNCHANGED <<AIRPORTS_CACHE, store>>]_vars

C16_Witness ==
    \E t \in Threads :
        /\ pc[t] = "commit"
        /\ store.exists /\ ~store.readable
        /\ Len(io[t]) >= 4
        /\ io[t][1] = "stat" /\ io[t][2] = "read_failed"
        /\ Did(t, "primary_failed") /\ Did(t, "fallback_failed")
        /\ io[t][Len(io[t])] = "read_failed"
        /\ airports[t] = <<>>

\* the network requests of the current load of thread t, in order
Requests(t) ==
    SelectSeq(io[t], LAMBDA e : e \in {"primary", "primary_failed",
                                         "fallback", "fallback_failed"})

\* C17: a load makes at most two requests, the primary source first; the
\* fallback mirror is requested only after the primary request failed, never
\* after it succeeded; when both fail the result of the fetch is "no data".
C17_FallbackOnlyAfterPrimaryFailed ==
    \A t \in Threads :
        /\ Len(Requests(t)) <= 2
        /\ Len(Requests(t)) >= 1
              => Requests(t)[1] \in {"primary", "primary_failed"}
        /\ Len(Requests(t)) = 2
              => /\ Requests(t)[1] = "primary_failed"
                 /\ Requests(t)[2] \in {"fallback", "fallback_failed"}
        /\ (pc[t] = "parse" /\ Requests(t) = <<"primary_failed", "fallback_failed">>)
              => txt[t] = NoText

\* the rows the claim keeps: type large_airport or medium_airport,
\* scheduled_service "yes" in any case, a non-empty name, and a latitude
\* and a longitude that parse as numbers (surrounding blanks ignored where
\* the parser ignores them)
Kept(row) ==
    /\ Strip(row.type) \in {"large_airport", "medium_airport"}
    /\ Lower(Strip(row.scheduled_service)) = "yes"
    /\ Strip(row.name) # ""
    /\ row.latitude_deg # "" /\ ~FloatFails(row.latitude_deg)
    /\ row.longitude_deg # "" /\ ~FloatFails(row.longitude_deg)

\* the records of the kept rows of a text, in the order of the rows
KeptRecords(text) ==
    LET rows == SelectSeq(Tail(text), Kept)
    IN  [i \in 1..Len(rows) |->
            [name |-> Strip(rows[i].name), lat |-> Float(rows[i].latitude_deg),
             lon |-> Float(rows[i].longitude_deg)]]

\* C18: _parse_airports_csv returns the records of exactly the kept rows,
\* in input order, and drops every other row without raising.
C18_ParseKeepsExactlyTheValidRows ==
    [][\A t \in Threads :
          (pc[t] = "parse" /\ pc'[t] # "parse" /\ Truthy(txt[t]))
          => /\ pc'[t] # "raised"
             /\ airports'[t] = KeptRecords(txt[t][1])]_vars

\* C19: the store changes only in the persist step of a load whose
\* fetched and normalized set is non-empty, and then either holds that set
\* or the write failed; the persist step of a load whose fetch gave an empty
\* set performs no write and leaves the store as it was.
C19_StoreWrittenOnlyWithFetchedSet ==
    [][/\ store' # store
          => \E t \in AIRPORTS_LOCK :
                /\ pc[t] = "persist" /\ pc'[t] = "stale"
                /\ airports[t] # <<>>
                /\ Did(t, "primary") \/ Did(t, "fallback")
                /\ \/ store'.readable /\ store'.data = airports[t]
                   \/ Did(t, "write_failed")'
       /\ \A t \in Threads :
             (pc[t] = "persist" /\ pc'[t] # "persist" /\ airports[t] = <<>>)
             => /\ store' = store
                /\ io'[t] = io[t]]_vars

C19_Witness ==
    \E t \in Threads :
        /\ pc[t] = "stale"
        /\ refresh_airports[t]
        /\ airports[t] = <<>>
        /\ Did(t, "primary_failed") /\ Did(t, "fallback_failed")
        /\ store.exists /\ store.readable /\ store.data # <<>>
        /\ now - store.mtime >= CACHE_TTL_SECONDS

\* C20: the lock is held exactly while a load is in progress, and under
\* fair scheduling every caller that waits for the lock acquires it and its
\* load call returns a list to it.
C20_LockReleasedAndLoadReturns ==
    /\ [](AIRPORTS_LOCK = {t \in Threads : pc[t] \in InLoad})
    /\ \A t \in Threads : (pc[t] = "lock") ~> (pc[t] = "nearest")

====
